---- MODULE Spec2Model ----
(***************************************************************************)
(* ud-co2s-server (main.go): a reader goroutine arms a UD-CO2S sensor over *)
(* a serial line (prepareDevice), decodes its telemetry lines into the     *)
(* shared variable `latest`, and an HTTP goroutine serves `latest` on      *)
(* /data.  Both goroutines share the SIGINT context `ctx` and are joined   *)
(* by an errgroup.                                                         *)
(*                                                                         *)
(* Lines are TLA+ strings, examined character by character as the code     *)
(* does (t[:2], text[:6], the regular expression).  float64 values are     *)
(* held in tenths (the precision of the sensor's frames); int64 values are *)
(* held as canonical decimal numerals so that the full 64-bit range is     *)
(* kept.                                                                   *)
(***************************************************************************)
EXTENDS Integers, Sequences, FiniteSets, TLC

\* ---------------------------------------------------------------- bounds
\* Lines the device delivers in one session (each Scan that yields a line).
MaxReads == 5
\* HTTP requests served concurrently by the /data handler.
MaxReq == 1

\* ------------------------------------------------------------- characters
Ch(s, i) == SubSeq(s, i, i)

Digits == {"0", "1", "2", "3", "4", "5", "6", "7", "8", "9"}

DigitVal(c) ==
    CASE c = "0" -> 0 [] c = "1" -> 1 [] c = "2" -> 2 [] c = "3" -> 3
      [] c = "4" -> 4 [] c = "5" -> 5 [] c = "6" -> 6 [] c = "7" -> 7
      [] c = "8" -> 8 [] c = "9" -> 9

\* Go's s[:n]: the first n bytes; a run-time panic when n > len(s).
Panics(s, n) == Len(s) < n

Prefix(s, n) == SubSeq(s, 1, n)

HasPrefixAt(s, i, p) ==
    /\ i + Len(p) - 1 <= Len(s)
    /\ SubSeq(s, i, i + Len(p) - 1) = p

\* ------------------------------------------------- regular expression
\* re = `CO2=(\d+),HUM=([0-9\.]+),TMP=([0-9\.-]+)`
ClassCO2 == Digits
ClassHUM == Digits \cup {"."}
ClassTMP == Digits \cup {".", "-"}

\* End (exclusive) of the longest run of characters of class starting at i.
RECURSIVE RunEnd(_, _, _)
RunEnd(s, i, class) ==
    IF i <= Len(s) /\ Ch(s, i) \in class THEN RunEnd(s, i + 1, class) ELSE i

NoMatch == <<>>

\* The match of re anchored at position i: the three submatches, or NoMatch.
\* Each repetition is greedy and is followed by a character outside its
\* class, so the greedy run is the only candidate.
MatchAt(s, i) ==
    IF ~HasPrefixAt(s, i, "CO2=") THEN NoMatch
    ELSE LET a == i + 4
             b == RunEnd(s, a, ClassCO2)
         IN  IF b = a \/ ~HasPrefixAt(s, b, ",HUM=") THEN NoMatch
             ELSE LET c == b + 5
                      d == RunEnd(s, c, ClassHUM)
                  IN  IF d = c \/ ~HasPrefixAt(s, d, ",TMP=") THEN NoMatch
                      ELSE LET e == d + 5
                               f == RunEnd(s, e, ClassTMP)
                           IN  IF f = e THEN NoMatch
                               ELSE << SubSeq(s, a, b - 1),
                                       SubSeq(s, c, d - 1),
                                       SubSeq(s, e, f - 1) >>

\* m[0] of re.FindAllStringSubmatch(text, -1): the leftmost match.
RECURSIVE FindFrom(_, _)
FindFrom(s, i) ==
    IF i > Len(s) THEN NoMatch
    ELSE IF MatchAt(s, i) # NoMatch THEN MatchAt(s, i)
    ELSE FindFrom(s, i + 1)

FindSubmatch(text) == FindFrom(text, 1)

\* ------------------------------------------------------------- strconv
MaxInt64 == "9223372036854775807"

RECURSIVE StripZeros(_)
StripZeros(s) ==
    IF Len(s) > 1 /\ Ch(s, 1) = "0" THEN StripZeros(SubSeq(s, 2, Len(s))) ELSE s

\* a <= b for canonical decimal numerals of equal length.
RECURSIVE LexLE(_, _, _)
LexLE(a, b, i) ==
    IF i > Len(a) THEN TRUE
    ELSE IF DigitVal(Ch(a, i)) < DigitVal(Ch(b, i)) THEN TRUE
    ELSE IF DigitVal(Ch(a, i)) > DigitVal(Ch(b, i)) THEN FALSE
    ELSE LexLE(a, b, i + 1)

DecLE(a, b) == Len(a) < Len(b) \/ (Len(a) = Len(b) /\ LexLE(a, b, 1))

\* strconv.ParseInt(s, 10, 64) on a string of digits: the value, or the
\* largest int64 together with a range error.
ParseInt(s) ==
    LET n == StripZeros(s)
    IN  IF DecLE(n, MaxInt64) THEN [val |-> n, ok |-> TRUE]
        ELSE [val |-> MaxInt64, ok |-> FALSE]

\* Number of occurrences of character c in s.
RECURSIVE Count(_, _, _)
Count(s, c, i) ==
    IF i > Len(s) THEN 0
    ELSE (IF Ch(s, i) = c THEN 1 ELSE 0) + Count(s, c, i + 1)

\* Value in tenths of an unsigned decimal mantissa with at most one point;
\* digits beyond the first fractional digit are below the model's precision.
RECURSIVE Tenths(_, _, _, _)
Tenths(s, i, acc, frac) ==
    IF i > Len(s) THEN (IF frac = 0 THEN acc * 10 ELSE acc)
    ELSE IF Ch(s, i) = "." THEN Tenths(s, i + 1, acc * 10, 1)
    ELSE IF frac = 0 THEN Tenths(s, i + 1, acc * 10 + DigitVal(Ch(s, i)), 0)
    ELSE IF frac = 1
         THEN Tenths(s, i + 1, (acc \div 10) * 10 + DigitVal(Ch(s, i)), 2)
    ELSE Tenths(s, i + 1, acc, 2)

\* strconv.ParseFloat(s, 64) on a string over [0-9.-]: an optional sign, then
\* digits with at most one point and at least one digit; anything else is a
\* syntax error and the value is 0.
ParseFloat(s) ==
    LET neg  == HasPrefixAt(s, 1, "-")
        body == IF neg THEN SubSeq(s, 2, Len(s)) ELSE s
        good == /\ Count(body, "-", 1) = 0
                /\ Count(body, ".", 1) <= 1
                /\ Len(body) - Count(body, ".", 1) >= 1
        v    == Tenths(body, 1, 0, 0)
    IN  IF good THEN [val |-> IF neg THEN 0 - v ELSE v, ok |-> TRUE]
        ELSE [val |-> 0, ok |-> FALSE]

\* ------------------------------------------------------------ the data
\* type Data; the zero value is what freshly allocated memory holds.
Data(co2, h, t, ts) ==
    [CO2 |-> co2, Humidity |-> h, Temperature |-> t, Timestamp |-> ts]

Fields == {"CO2", "Humidity", "Temperature", "Timestamp"}

NaN == [nan |-> TRUE]

\* The float64 zero, as a humidity.
ZeroHumidity == [h |-> 0, t |-> 0]

ZeroData == Data("0", ZeroHumidity, 0, 0)

\* var latest *Data = nil
Nil == [nil |-> TRUE]

\* Mutant of correctTemperature: the correction is 4 degrees instead of 4.5.
correctTemperatureBy4(t) == t - 40

\* correctTemperature, in tenths of a degree.
correctTemperature(t) == t - 45

\* correctHumidity.  The quotient of the two powers of ten is kept as the
\* term (h, t) it is computed from; h = 0 gives 0, and t1 + 237.3 = 0 gives
\* h * 0 / 0, which is NaN.
correctHumidity(h, t) ==
    LET t1 == correctTemperature(t)
    IN  IF t1 + 2373 = 0 THEN NaN
        ELSE IF h = 0 THEN ZeroHumidity
        ELSE [h |-> h, t |-> t]

\* Lines 132-142: the frame a line decodes to (the errors of the three
\* conversions are discarded), or NoMatch.
Decode(text, now) ==
    LET m == FindSubmatch(text)
    IN  IF m = NoMatch THEN NoMatch
        ELSE LET co2 == ParseInt(m[1]).val
                 h   == ParseFloat(m[2]).val
                 t   == ParseFloat(m[3]).val
             IN  Data(co2, correctHumidity(h, t), correctTemperature(t), now)

\* A matched frame all of whose fields parse.
WellFormed(text) ==
    LET m == FindSubmatch(text)
    IN  /\ m # NoMatch
        /\ ParseInt(m[1]).ok /\ ParseFloat(m[2]).ok /\ ParseFloat(m[3]).ok

\* ISO8601Time.MarshalJSON: instants count half milliseconds, the format
\* keeps milliseconds.
FormatISO8601(ts) == ts \div 2

\* json.Marshal(latest): fails on a NaN humidity.
MarshalFails(d) == d.Humidity = NaN

Marshal(d) ==
    [co2 |-> d.CO2, humidity |-> d.Humidity, temperature |-> d.Temperature,
     timestamp |-> FormatISO8601(d.Timestamp)]

\* ------------------------------------------------------------ the device
\* The lines the device may deliver.
Lines ==
    { "OK", "OK STP", "NG", "", "hello world",
      "CO2=412,HUM=45.3,TMP=23.1",
      "CO2=900,HUM=1.2.3,TMP=25.0",
      "CO2=500,HUM=40.0,TMP=-232.8",
      "OK STP CO2=400,HUM=40.0,TMP=20.0" }

\* []string{"STP", "ID?", "STA"}
Commands == << "STP", "ID?", "STA" >>

\* fmt.Errorf(" command (c) failed", c): the error names the command.
CommandFailed(c) == " command '" \o c \o "' failed"

\* ------------------------------------------------------------- the state
VARIABLES
    ctxDone,      \* ctx of signal.NotifyContext is cancelled (SIGINT arrived)
    rpc,          \* position of the reader goroutine
    cmdIdx,       \* index in Commands of the command prepareDevice is at
    scanErr,      \* the scanner's sticky end: "" | "eof" | "timeout"
    reads,        \* lines scanned so far; also the clock of time.Now()
    written,      \* the commands written to the port, in order
    portState,    \* "unopened" | "open" | "closed"
    latest,       \* the shared *Data
    readerErr,    \* what the reader goroutine returns
    spc,          \* position of the server goroutine
    serverErr,    \* what the server goroutine returns
    shutdownPc,   \* position of the goroutine that calls s.Shutdown
    handlers,     \* position of the /data handler of each request
    response,     \* the last response a handler wrote; hadData tells whether
                  \* a Data had been stored when the handler read latest
    egErr,        \* the first error the errgroup recorded
    exit,         \* the process: "running" or its exit status
    \* history, for the properties only
    stored,       \* every line stored, with the Data assigned to latest
    okSince,      \* an "OK" line was read since the last handshake write
    ngCmd,        \* the command whose wait read an "NG" line ("" if none)
    ngCancelled,  \* ctx was already cancelled when that line was examined
    hsTimeoutAt,  \* cmdIdx of the wait that ended without a line, by timeout
    cancelSeen,   \* where the reader took the <-ctx.Done() branch
    sinceWrite,   \* what the reads since the last write have yielded
    closes,       \* how many times port.Close() was called
    acked,        \* how many handshake waits a line beginning with "OK" ended
    atCancel      \* the requests in flight when ctx was cancelled, until
                  \* their handlers return

vars == << ctxDone, rpc, cmdIdx, scanErr, reads, written, portState, latest,
           readerErr, spc, serverErr, shutdownPc, handlers, response, egErr, exit,
           stored, okSince, ngCmd, ngCancelled, hsTimeoutAt, cancelSeen,
           sinceWrite, closes, acked, atCancel >>

readerVars == << rpc, cmdIdx, scanErr, reads, written, portState, latest,
                 readerErr, stored, okSince, ngCmd, ngCancelled, hsTimeoutAt,
                 cancelSeen, sinceWrite, closes, acked >>

serverVars == << spc, serverErr, shutdownPc, handlers, response, atCancel >>

NoResponse == [status |-> 0]

Requests == 1 .. MaxReq

Init ==
    /\ ctxDone = FALSE
    /\ rpc = "open"
    /\ cmdIdx = 1
    /\ scanErr = ""
    /\ reads = 0
    /\ written = << >>
    /\ portState = "unopened"
    /\ latest = Nil
    /\ readerErr = "running"
    /\ spc = "start"
    /\ serverErr = "running"
    /\ shutdownPc = "wait"
    /\ handlers = [i \in Requests |-> "idle"]
    /\ response = NoResponse
    /\ egErr = "none"
    /\ exit = "running"
    /\ stored = {}
    /\ okSince = FALSE
    /\ ngCmd = ""
    /\ ngCancelled = FALSE
    /\ hsTimeoutAt = 0
    /\ cancelSeen = "no"
    /\ sinceWrite = "none"
    /\ closes = 0
    /\ acked = 0
    /\ atCancel = {}

Running == exit = "running"

\* errgroup: the first non-nil error returned by a goroutine is kept.
EgRecord(err) == IF egErr = "none" /\ err # "nil" THEN err ELSE egErr

\* os.Interrupt: ctx is cancelled.
Signal ==
    /\ Running
    /\ ~ctxDone
    /\ ctxDone' = TRUE
    /\ atCancel' = { i \in Requests : handlers[i] # "idle" }
    /\ UNCHANGED << readerVars, spc, serverErr, shutdownPc, handlers, response,
                    egErr, exit >>

\* ------------------------------------------------------ reader goroutine
\* A return of the goroutine's function after the defer was registered.
Return(err) ==
    /\ readerErr' = err
    /\ rpc' = "deferWrite"

\* serial.Open (lines 97-105).
Open ==
    /\ Running
    /\ rpc = "open"
    /\ \/ /\ portState' = "open"
          /\ rpc' = "write"
          /\ UNCHANGED << readerErr, egErr >>
       \/ /\ readerErr' = "failed to open port"
          /\ rpc' = "done"
          /\ egErr' = EgRecord("failed to open port")
          /\ UNCHANGED portState
    /\ UNCHANGED << ctxDone, cmdIdx, scanErr, reads, written, latest, stored,
                    okSince, ngCmd, ngCancelled, hsTimeoutAt, cancelSeen,
                    sinceWrite, closes, acked, serverVars, exit >>

\* prepareDevice, lines 46-49: p.Write(c + "\r\n").
HsWrite ==
    /\ Running
    /\ rpc = "write"
    /\ written' = Append(written, Commands[cmdIdx])
    /\ sinceWrite' = "none"
    /\ okSince' = FALSE
    /\ \/ /\ rpc' = "await"
          /\ UNCHANGED readerErr
       \/ Return("write failed")
    /\ UNCHANGED << ctxDone, cmdIdx, scanErr, reads, portState, latest, stored,
                    ngCmd, ngCancelled, hsTimeoutAt, cancelSeen, closes,
                    acked, serverVars, egErr, exit >>

\* The end of the inner loop of prepareDevice: on to the next command, or
\* out of prepareDevice with nil and into the scan loop (lines 44, 65-66).
HsAdvance ==
    IF cmdIdx < Len(Commands)
    THEN /\ cmdIdx' = cmdIdx + 1
         /\ rpc' = "write"
    ELSE /\ cmdIdx' = cmdIdx
         /\ rpc' = "scan"

\* Mutant of HsOutcome: the "NG" branch is missing, so a negative
\* acknowledgement is skipped like any other line.
HsOutcomeWithoutNG(t, done) ==
    IF done THEN "canceled"
    ELSE IF Panics(t, 2) THEN "panic"
    ELSE IF Prefix(t, 2) = "OK" THEN "ok"
    ELSE "other"

\* One iteration of the inner loop of prepareDevice on line t (lines 51-62).
HsOutcome(t, done) ==
    IF done THEN "canceled"
    ELSE IF Panics(t, 2) THEN "panic"
    ELSE IF Prefix(t, 2) = "OK" THEN "ok"
    ELSE IF Prefix(t, 2) = "NG" THEN "ng"
    ELSE "other"

\* History: whether a line read is the acknowledgement of STP.
ReadKind(t) ==
    IF ~Panics(t, 6) /\ Prefix(t, 6) = "OK STP" THEN "ack" ELSE "line"

\* s.Scan() yields line t while prepareDevice waits (lines 50-63).
HsRead(t) ==
    /\ Running
    /\ rpc = "await"
    /\ scanErr = ""
    /\ reads < MaxReads
    /\ LET o == HsOutcome(t, ctxDone)
       IN  /\ reads' = reads + 1
           /\ sinceWrite' = ReadKind(t)
           /\ okSince' = (okSince \/ (~Panics(t, 2) /\ Prefix(t, 2) = "OK"))
           /\ acked' = (IF o = "ok" THEN acked + 1 ELSE acked)
           /\ IF ~Panics(t, 2) /\ Prefix(t, 2) = "NG"
              THEN ngCmd' = Commands[cmdIdx] /\ ngCancelled' = ctxDone
              ELSE UNCHANGED << ngCmd, ngCancelled >>
           /\ cancelSeen' = (IF o = "canceled" THEN "handshake" ELSE cancelSeen)
           /\ CASE o = "canceled" ->
                     Return("context canceled") /\ UNCHANGED cmdIdx
                [] o = "panic" -> Return("panic") /\ UNCHANGED cmdIdx
                [] o = "ok" -> HsAdvance /\ UNCHANGED readerErr
                [] o = "ng" ->
                     Return(CommandFailed(Commands[cmdIdx])) /\ UNCHANGED cmdIdx
                [] o = "other" -> UNCHANGED << rpc, cmdIdx, readerErr >>
    /\ UNCHANGED << ctxDone, scanErr, written, portState, latest, stored,
                    hsTimeoutAt, closes, serverVars, egErr, exit >>

\* The device delivers any of its lines.
HsLine == \E t \in Lines : HsRead(t)

\* s.Scan() returns false while prepareDevice waits: the read timed out, the
\* stream ended, or the scanner had already stopped.  The inner loop ends
\* and the outer loop goes on (line 50).
HsNoLine ==
    /\ Running
    /\ rpc = "await"
    /\ \/ /\ scanErr = ""
          /\ scanErr' = "timeout"
          /\ hsTimeoutAt' = cmdIdx
          /\ sinceWrite' = "timeout"
       \/ /\ scanErr = ""
          /\ scanErr' = "eof"
          /\ sinceWrite' = "eof"
          /\ UNCHANGED hsTimeoutAt
       \/ /\ scanErr # ""
          /\ UNCHANGED << scanErr, hsTimeoutAt, sinceWrite >>
    /\ HsAdvance
    /\ UNCHANGED << ctxDone, reads, written, portState, latest, readerErr,
                    stored, okSince, ngCmd, ngCancelled, cancelSeen, closes,
                    acked, serverVars, egErr, exit >>

\* time.Now() (line 130): an instant in half milliseconds, later at every line.
Now == reads + 2

\* Mutant of StreamOutcome: a frame is stored only while the store is empty.
StreamOutcomeKeepFirst(text, done) ==
    IF done THEN "canceled"
    ELSE IF FindSubmatch(text) # NoMatch
         THEN (IF latest = Nil THEN "store" ELSE "unmatched")
    ELSE IF Panics(text, 6) THEN "panic"
    ELSE IF Prefix(text, 6) = "OK STP" THEN "stop"
    ELSE "unmatched"

\* Mutant of StreamOutcome: the scan loop does not look at ctx.Done().
StreamOutcomeIgnoringCancel(text, done) ==
    IF FindSubmatch(text) # NoMatch THEN "store"
    ELSE IF Panics(text, 6) THEN "panic"
    ELSE IF Prefix(text, 6) = "OK STP" THEN "stop"
    ELSE "unmatched"

\* One iteration of the scan loop on line text (lines 124-147).
StreamOutcome(text, done) ==
    IF done THEN "canceled"
    ELSE IF FindSubmatch(text) # NoMatch THEN "store"
    ELSE IF Panics(text, 6) THEN "panic"
    ELSE IF Prefix(text, 6) = "OK STP" THEN "stop"
    ELSE "unmatched"

\* s.Scan() yields line text in the scan loop (lines 123-148); a break falls
\* through to s.Err(), which is nil here, and to return nil (lines 149-155).
StreamRead(text) ==
    /\ Running
    /\ rpc = "scan"
    /\ scanErr = ""
    /\ reads < MaxReads
    /\ LET o == StreamOutcome(text, ctxDone)
       IN  /\ reads' = reads + 1
           /\ sinceWrite' = ReadKind(text)
           /\ cancelSeen' = (IF o = "canceled" THEN "stream" ELSE cancelSeen)
           /\ IF o = "store"
              THEN /\ latest' = Decode(text, Now)
                   /\ stored' = stored \cup
                                   {[text |-> text, data |-> Decode(text, Now)]}
              ELSE UNCHANGED << latest, stored >>
           /\ CASE o = "canceled" -> Return("nil")
                [] o = "store" -> UNCHANGED << rpc, readerErr >>
                [] o = "panic" -> Return("panic")
                [] o = "stop" -> Return("nil")
                [] o = "unmatched" -> UNCHANGED << rpc, readerErr >>
    /\ UNCHANGED << ctxDone, cmdIdx, scanErr, written, portState, okSince,
                    ngCmd, ngCancelled, hsTimeoutAt, closes, acked, serverVars,
                    egErr, exit >>

\* The device delivers any of its lines.
StreamLine == \E text \in Lines : StreamRead(text)

\* s.Scan() returns false in the scan loop; s.Err() is nil at the end of the
\* stream and the timeout otherwise (lines 123, 149-155).
StreamNoLine ==
    /\ Running
    /\ rpc = "scan"
    /\ \/ /\ scanErr = ""
          /\ scanErr' = "timeout"
          /\ sinceWrite' = "timeout"
          /\ Return("scanner error")
       \/ /\ scanErr = ""
          /\ scanErr' = "eof"
          /\ sinceWrite' = "eof"
          /\ Return("nil")
       \/ /\ scanErr # ""
          /\ UNCHANGED << scanErr, sinceWrite >>
          /\ Return(IF scanErr = "timeout" THEN "scanner error" ELSE "nil")
    /\ UNCHANGED << ctxDone, cmdIdx, reads, written, portState, latest, stored,
                    okSince, ngCmd, ngCancelled, hsTimeoutAt, cancelSeen, closes,
                    acked, serverVars, egErr, exit >>

\* Mutant of DeferWrite: the deferred function closes the port without
\* writing STP first.
DeferWithoutWrite ==
    /\ Running
    /\ rpc = "deferWrite"
    /\ rpc' = "deferClose"
    /\ UNCHANGED << ctxDone, cmdIdx, scanErr, reads, written, portState,
                    latest, readerErr, stored, okSince, ngCmd, ngCancelled,
                    hsTimeoutAt, cancelSeen, sinceWrite, closes, acked, serverVars,
                    egErr, exit >>

\* The deferred function, first half: port.Write("STP\r\n") (line 107).
DeferWrite ==
    /\ Running
    /\ rpc = "deferWrite"
    /\ written' = Append(written, "STP")
    /\ sinceWrite' = "none"
    /\ rpc' = "deferClose"
    /\ UNCHANGED << ctxDone, cmdIdx, scanErr, reads, portState, latest,
                    readerErr, stored, okSince, ngCmd, ngCancelled,
                    hsTimeoutAt, cancelSeen, closes, acked, serverVars, egErr, exit >>

\* The deferred function, second half: port.Close() (lines 108-109).  The
\* goroutine then ends: the errgroup takes its error, or the panic ends
\* the process.
DeferClose ==
    /\ Running
    /\ rpc = "deferClose"
    /\ portState' = "closed"
    /\ closes' = closes + 1
    /\ rpc' = "done"
    /\ IF readerErr = "panic"
       THEN exit' = "2" /\ UNCHANGED egErr
       ELSE egErr' = EgRecord(readerErr) /\ UNCHANGED exit
    /\ UNCHANGED << ctxDone, cmdIdx, scanErr, reads, written, latest,
                    readerErr, stored, okSince, ngCmd, ngCancelled,
                    hsTimeoutAt, cancelSeen, sinceWrite, acked, serverVars >>

\* ------------------------------------------------------ server goroutine
\* s.ListenAndServe() (line 192): it serves, or fails to listen, or finds
\* the server already shut down and returns http.ErrServerClosed.
Listen ==
    /\ Running
    /\ spc = "start"
    /\ \/ /\ shutdownPc = "wait"
          /\ spc' = "serving"
          /\ UNCHANGED << serverErr, egErr >>
       \/ /\ shutdownPc = "wait"
          /\ spc' = "returned"
          /\ serverErr' = "listen failed"
          /\ egErr' = EgRecord("listen failed")
       \/ /\ shutdownPc # "wait"
          /\ spc' = "returned"
          /\ serverErr' = "nil"
          /\ UNCHANGED egErr
    /\ UNCHANGED << ctxDone, readerVars, shutdownPc, handlers, response,
                    atCancel, exit >>

\* <-ctx.Done(), then s.Shutdown is entered: the listener is closed
\* (lines 183-188).
ShutdownCall ==
    /\ Running
    /\ ctxDone
    /\ shutdownPc = "wait"
    /\ shutdownPc' = "draining"
    /\ UNCHANGED << ctxDone, atCancel, readerVars, spc, serverErr, handlers, response,
                    egErr, exit >>

\* ListenAndServe returns http.ErrServerClosed once Shutdown was entered;
\* the goroutine returns nil (lines 192-195).
ServeReturn ==
    /\ Running
    /\ spc = "serving"
    /\ shutdownPc # "wait"
    /\ spc' = "returned"
    /\ serverErr' = "nil"
    /\ UNCHANGED << ctxDone, atCancel, readerVars, shutdownPc, handlers, response, egErr,
                    exit >>

\* s.Shutdown returns: no request is in flight any more, or the five
\* seconds of its context have passed (lines 186-189).
ShutdownReturn ==
    /\ Running
    /\ shutdownPc = "draining"
    /\ \/ \A i \in Requests : handlers[i] = "idle"
       \/ \E i \in Requests : handlers[i] # "idle"
    /\ shutdownPc' = "done"
    /\ UNCHANGED << ctxDone, atCancel, readerVars, spc, serverErr, handlers, response,
                    egErr, exit >>

\* A request to /data is accepted and its handler starts.
Accept(i) ==
    /\ Running
    /\ spc = "serving"
    /\ shutdownPc = "wait"
    /\ handlers[i] = "idle"
    /\ handlers' = [handlers EXCEPT ![i] = "check"]
    /\ UNCHANGED << ctxDone, atCancel, readerVars, spc, serverErr, shutdownPc, response,
                    egErr, exit >>

\* if latest == nil (line 162): 503 "no data" and the handler returns
\* (lines 163-164), or on to json.Marshal.
Check(i) ==
    /\ Running
    /\ handlers[i] = "check"
    /\ IF latest = Nil
       THEN /\ response' = [status |-> 503, body |-> "no data",
                            hadData |-> stored # {}]
            /\ handlers' = [handlers EXCEPT ![i] = "idle"]
            /\ atCancel' = atCancel \ {i}
       ELSE /\ handlers' = [handlers EXCEPT ![i] = "marshal"]
            /\ UNCHANGED << response, atCancel >>
    /\ UNCHANGED << ctxDone, readerVars, spc, serverErr, shutdownPc, egErr,
                    exit >>

\* What a handler may read through the pointer it loaded: the reader's
\* assignment and this read are not ordered by any synchronisation, so
\* each field is either the one written or still the zero of the fresh
\* allocation.  o tells for each field whether the write is seen.
Observe(d, o) ==
    [CO2         |-> IF o["CO2"] THEN d.CO2 ELSE ZeroData.CO2,
     Humidity    |-> IF o["Humidity"] THEN d.Humidity ELSE ZeroData.Humidity,
     Temperature |-> IF o["Temperature"] THEN d.Temperature
                     ELSE ZeroData.Temperature,
     Timestamp   |-> IF o["Timestamp"] THEN d.Timestamp ELSE ZeroData.Timestamp]

Observations(d) == { Observe(d, o) : o \in [Fields -> BOOLEAN] }

\* json.Marshal(latest), the response, and the handler returns
\* (lines 167-175).
Respond(i) ==
    /\ Running
    /\ handlers[i] = "marshal"
    /\ \E d \in Observations(latest) :
         response' =
           [status  |-> IF MarshalFails(d) THEN 500 ELSE 200,
            body    |-> IF MarshalFails(d) THEN [error |-> "json: unsupported value"]
                        ELSE Marshal(d),
            seen    |-> d,
            hadData |-> stored # {}]
    /\ handlers' = [handlers EXCEPT ![i] = "idle"]
    /\ atCancel' = atCancel \ {i}
    /\ UNCHANGED << ctxDone, readerVars, spc, serverErr, shutdownPc, egErr,
                    exit >>

\* ------------------------------------------------------------ the process
\* eg.Wait() returns once both goroutines have; main exits with status 1
\* through log.Fatal on an error and with status 0 otherwise
\* (lines 198-205).
Exit ==
    /\ Running
    /\ rpc = "done"
    /\ spc = "returned"
    /\ exit' = (IF egErr = "none" THEN "0" ELSE "1")
    /\ UNCHANGED << ctxDone, readerVars, serverVars, egErr >>

Next ==
    \/ Signal
    \/ Open \/ HsWrite \/ HsLine \/ HsNoLine
    \/ StreamLine \/ StreamNoLine \/ DeferWrite \/ DeferClose
    \/ Listen \/ ShutdownCall \/ ServeReturn \/ ShutdownReturn
    \/ \E i \in Requests : Accept(i) \/ Check(i) \/ Respond(i)
    \/ Exit

Spec == Init /\ [][Next]_vars

\* The steps of the reader goroutine.
ReaderStep ==
    \/ Open \/ HsWrite \/ HsLine \/ HsNoLine
    \/ StreamLine \/ StreamNoLine \/ DeferWrite \/ DeferClose

\* The reader goroutine is scheduled, its writes return, and each of its
\* reads returns: with a line, or without one (port.SetReadTimeout, line 112).
FairSpec == Spec /\ WF_vars(ReaderStep)

\* ------------------------------------------------------------ properties
\* The Data of every store operation of the reader.
StoredData == { r.data : r \in stored }

\* The handshake commands written so far: written without the STP of the
\* deferred function.
HsWritten ==
    IF rpc \in {"deferClose", "done"} /\ portState # "unopened"
    THEN SubSeq(written, 1, Len(written) - 1)
    ELSE written

\* Position of command c in Commands.
CmdPos(c) == CHOOSE k \in 1 .. Len(Commands) : Commands[k] = c

ReaderEnded == rpc \in {"deferWrite", "deferClose", "done"}

\* C1: a response of the data endpoint is 503 as long as nothing was ever
\* stored; it is 200 with the four fields of one stored Reading when a
\* Reading had been stored before the request began; and every 200 carries
\* the fields of a stored Reading.
C1_DataEndpoint ==
    response # NoResponse =>
      /\ stored = {} => response.status = 503
      /\ response.hadData => response.status = 200
      /\ response.status = 200 =>
           response.body \in { Marshal(d) : d \in StoredData }

\* C2: the Reading a handler observes is one whole Reading the reader
\* stored: all four fields come from the same store operation.
C2_NoTornReading ==
    response.status \in {200, 500} => response.seen \in StoredData

\* C3: a handshake command after the first is written only after a line
\* beginning with "OK" was read since the write of the command before it.
C3_OKGatesNextCommand ==
    [][(rpc = "write" /\ written' # written /\ cmdIdx > 1) => okSince]_vars

\* C4 as stated: a "NG" line read while awaiting command c ends the
\* handshake with the error naming c, no later handshake command is written
\* and no Reading is stored.
C4_NGNamesCommand ==
    ngCmd # "" =>
      /\ ReaderEnded
      /\ readerErr = CommandFailed(ngCmd)
      /\ HsWritten = SubSeq(Commands, 1, CmdPos(ngCmd))
      /\ latest = Nil /\ stored = {}

\* C4 amended: a "NG" line read while awaiting command c ends the handshake
\* with the error naming c when ctx was not yet cancelled as the line was
\* examined, and with the cancellation error when it was; either way no
\* later handshake command is written and no Reading is stored.
C4_NGEndsHandshake ==
    ngCmd # "" =>
      /\ ReaderEnded
      /\ readerErr = (IF ngCancelled THEN "context canceled"
                      ELSE CommandFailed(ngCmd))
      /\ HsWritten = SubSeq(Commands, 1, CmdPos(ngCmd))
      /\ latest = Nil /\ stored = {}

C4_Witness ==
    /\ ngCmd = "ID?" /\ ~ngCancelled
    /\ rpc = "done"
    /\ readerErr = CommandFailed("ID?")
    /\ written = << "STP", "ID?", "STP" >>

\* C5: a line that matches the telemetry pattern but has a field that does
\* not parse produces no Reading: nothing is stored from it.
C5_MalformedNotStored ==
    \A r \in stored : WellFormed(r.text)

\* C6: once the port was opened, every way out of the reader goroutine
\* closes it exactly once, the write of STP is the last operation on the
\* port before the close, and nothing is read or written after the close.
C6_ChannelReleased ==
    /\ [](closes <= 1)
    /\ []((rpc = "done" /\ portState # "unopened") =>
            (portState = "closed" /\ closes = 1))
    /\ [][closes' # closes =>
            (/\ written # << >>
             /\ written[Len(written)] = "STP"
             /\ sinceWrite = "none"
             /\ rpc = "deferClose")]_vars
    /\ [][portState = "closed" =>
            (/\ written' = written /\ reads' = reads
             /\ scanErr' = scanErr /\ portState' = "closed")]_vars

C6_Witness ==
    /\ rpc = "done" /\ closes = 1 /\ portState = "closed"
    /\ readerErr = CommandFailed("STA")
    /\ written = << "STP", "ID?", "STA", "STP" >>

\* C7: when the reader saw the cancellation in the scan loop, the port is
\* closed only after the reads that follow the last write (the shutdown STP)
\* have yielded a line beginning with "OK STP" or a timeout.
C7_WaitsForStopAck ==
    [][(closes' # closes /\ cancelSeen = "stream") =>
          sinceWrite \in {"ack", "timeout"}]_vars

\* No event other than the cancellation ended the run: no "NG", no failed
\* read, no failure of the port or of the server, no panic.
OnlyCancellation ==
    /\ ctxDone
    /\ ngCmd = ""
    /\ scanErr = ""
    /\ readerErr \notin {"failed to open port", "write failed", "panic"}
    /\ serverErr # "listen failed"

\* C8: a run that only the cancellation signal ended exits with status 0.
C8_CancelExitsZero ==
    (exit # "running" /\ OnlyCancellation) => exit = "0"

\* C9: once a goroutine has returned an error, the context the other one
\* watches is cancelled, so that it stops without a signal.
C9_ErrorCancelsOther ==
    egErr # "none" => ctxDone

\* C10: a read that times out while prepareDevice waits for the response to
\* a command is fatal: no further handshake command is written, and the
\* reader goroutine returns an error.
C10_TimeoutFatal ==
    hsTimeoutAt # 0 =>
      /\ Len(HsWritten) = hsTimeoutAt
      /\ rpc = "done" => readerErr # "nil"

\* C11: the server goroutine does not return (so that eg.Wait cannot) while
\* a request that was in flight when ctx was cancelled is still being served
\* and s.Shutdown has not returned, that is, its grace period is not over.
C11_DrainsBeforeFinishing ==
    (spc = "returned" /\ serverErr = "nil" /\ shutdownPc # "done") =>
      atCancel = {}

\* C12: the reader is in the scan loop, or has stored a Reading, only after
\* each of the three commands was written and its wait was ended by a line
\* beginning with "OK".
C12_ReadyOnlyAfterThreeOKs ==
    (rpc = "scan" \/ stored # {}) =>
      (acked = Len(Commands) /\ HsWritten = Commands)

\* C13: while ctx is cancelled and prepareDevice awaits a response, the only
\* way on is the return of the cancellation error: no further command is
\* written and the handshake does not move to the next command.
C13_CancelAbortsHandshake ==
    [][(ctxDone /\ rpc = "await") =>
         /\ rpc' \in {"await", "deferWrite"}
         /\ rpc' = "deferWrite" => readerErr' = "context canceled"
         /\ written' = written
         /\ cmdIdx' = cmdIdx]_vars

NeitherOKNorNG(t) == ~HasPrefixAt(t, 1, "OK") /\ ~HasPrefixAt(t, 1, "NG")

\* C14: a line read while prepareDevice awaits a response and that begins
\* with neither "OK" nor "NG" is ignored: same wait, same command, nothing
\* written, no failure.
C14_OtherLinesIgnored ==
    [][\A t \in Lines :
         (HsRead(t) /\ ~ctxDone /\ NeitherOKNorNG(t)) =>
           /\ rpc' = "await"
           /\ cmdIdx' = cmdIdx
           /\ written' = written
           /\ readerErr' = readerErr]_vars

NotAFrame(text) ==
    FindSubmatch(text) = NoMatch /\ ~HasPrefixAt(text, 1, "OK STP")

\* C15: a line read in the scan loop that neither contains the telemetry
\* pattern nor begins with "OK STP" leaves the store as it is and the reader
\* in the scan loop.
C15_NotAFrameSkipped ==
    [][\A text \in Lines :
         (StreamRead(text) /\ ~ctxDone /\ NotAFrame(text)) =>
           /\ latest' = latest
           /\ stored' = stored
           /\ rpc' = "scan"
           /\ readerErr' = readerErr]_vars

\* C16: a line read in the scan loop that begins with "OK STP" ends the
\* reader with no error and stores nothing, whatever follows the prefix.
C16_StopAckTerminal ==
    [][\A text \in Lines :
         (StreamRead(text) /\ ~ctxDone /\ HasPrefixAt(text, 1, "OK STP")) =>
           /\ rpc' = "deferWrite"
           /\ readerErr' = "nil"
           /\ latest' = latest
           /\ stored' = stored]_vars

C18_PassThrough ==
    \A r \in stored :
      WellFormed(r.text) =>
        LET m == FindSubmatch(r.text)
        IN  /\ r.data.CO2 = StripZeros(m[1])
            /\ r.data.Temperature = ParseFloat(m[3]).val - 45

C18_Witness ==
    \E r \in stored :
      /\ r.text = "CO2=412,HUM=45.3,TMP=23.1"
      /\ r.data.CO2 = "412"
      /\ r.data.Temperature = 186

\* C19: once ctx is cancelled the reader goroutine ends with the port
\* closed; the first line read after the cancellation ends it and stores
\* nothing, and nothing is stored once the reader took the ctx.Done()
\* branch.
C19_CancelStopsReader ==
    /\ ctxDone ~> (rpc = "done" /\ portState # "open")
    /\ [][(ctxDone /\ reads' # reads) =>
            (ReaderEnded' /\ stored' = stored /\ latest' = latest)]_vars
    /\ [][cancelSeen # "no" => (stored' = stored /\ latest' = latest)]_vars

C19_Witness ==
    /\ cancelSeen = "stream"
    /\ stored # {}
    /\ rpc = "done"
    /\ portState = "closed"

\* C20: what a handler that passed the nil check serializes is the Data
\* latest points to as it serializes, a content of the store during the
\* request.
C20_SerializesStoreContent ==
    [][\A i \in Requests :
         Respond(i) => (latest # Nil /\ response'.seen = latest)]_vars

====
